---- MODULE Spec2Model ----
(***************************************************************************)
(* Model of the /predict_fire detection-request pipeline                   *)
(* (backend/app/api/predict_fire/router.py) together with the per-request  *)
(* database session of backend/app/db/database.py.                         *)
(*                                                                         *)
(* Strings that the code inspects character by character (file names) are *)
(* sequences of one-character strings.  Optional values are <<>> (None)    *)
(* or <<v>>.                                                               *)
(***************************************************************************)
EXTENDS Integers, Sequences, FiniteSets, Bags, TLC

\* ------------------------------------------------------------------ bounds
NumReq == 2        \* concurrent invocations of predict_fire
MaxBoxes == 2      \* boxes the engine returns for one image
MaxLen == 5        \* length of the file names the validator is applied to

Procs == 1..NumReq

None == <<>>
Some(v) == <<v>>

\* ------------------------------------------------------- character strings
Str_jpg == <<"j", "p", "g">>
Str_jpeg == <<"j", "p", "e", "g">>
Str_png == <<"p", "n", "g">>

\* str.lower() on the letters that occur in the modelled file names
LowerChar(c) ==
    CASE c = "J" -> "j"
      [] c = "P" -> "p"
      [] c = "G" -> "g"
      [] c = "E" -> "e"
      [] c = "N" -> "n"
      [] OTHER -> c

lower(s) == [i \in 1..Len(s) |-> LowerChar(s[i])]

\* str.rfind(c) as a 1-based index, 0 when c does not occur
rfind(s, c) ==
    IF \E i \in 1..Len(s) : s[i] = c
    THEN CHOOSE i \in 1..Len(s) : s[i] = c /\ \A j \in (i+1)..Len(s) : s[j] # c
    ELSE 0

\* filename.rsplit(".", 1)[1], defined when "." occurs in filename
rsplit_ext(filename) == SubSeq(filename, rfind(filename, ".") + 1, Len(filename))

ALLOWED_EXTENSIONS == {Str_jpg, Str_jpeg, Str_png}

\* variant: the extension is compared as typed
allowed_file_nolower(filename) ==
    /\ \E i \in 1..Len(filename) : filename[i] = "."
    /\ rsplit_ext(filename) \in ALLOWED_EXTENSIONS

allowed_file(filename) ==
    /\ \E i \in 1..Len(filename) : filename[i] = "."
    /\ lower(rsplit_ext(filename)) \in ALLOWED_EXTENSIONS

\* os.path.splitext(filename)[1] (posixpath: sep "/", extsep "."): the
\* extension starts at the last dot of the last path component, unless that
\* component has only dots before it.
splitext_ext(filename) ==
    LET sepIndex == rfind(filename, "/")
        dotIndex == rfind(filename, ".")
    IN IF /\ dotIndex > sepIndex
          /\ \E k \in (sepIndex+1)..(dotIndex-1) : filename[k] # "."
       THEN SubSeq(filename, dotIndex, Len(filename))
       ELSE <<>>

\* uuid.uuid4(): the values drawn are pairwise distinct; the one drawn by
\* invocation p is called p
uuid4(p) == p

\* f"{uuid.uuid4()}{file_extension}": the uuid part and the extension part
generate_random_file_name(filename, p) ==
    [id |-> uuid4(p), ext |-> splitext_ext(filename)]

\* ------------------------------------------------------------ input sets
\* uploads of the pipeline: "p.JPG", ".jpg", "doc.pdf", "png"
Uploads ==
    { <<"p", ".", "J", "P", "G">>,
      <<".", "j", "p", "g">>,
      <<"d", "o", "c", ".", "p", "d", "f">>,
      <<"p", "n", "g">> }

\* alphabet of the exhaustively enumerated file names
Alphabet == {".", "j", "p", "g", "e", "n", "J", "P"}

SeqsUpTo(S, n) == UNION {[1..k -> S] : k \in 0..n}

\* the engine's label table (model.names) and the boxes it can return
names == (0 :> "fire") @@ (1 :> "smoke")
Box == {[cls |-> 0, conf |-> 9, xyxy |-> <<1, 2, 3, 4>>],
        [cls |-> 1, conf |-> 5, xyxy |-> <<5, 6, 7, 8>>]}
BoxSeqs == SeqsUpTo(Box, MaxBoxes)

\* ------------------------------------------------------------------ state
VARIABLES
    pc,              \* position of each invocation in predict_fire
    running,         \* invocation whose handler body the event loop runs, 0 if none
    session,         \* the db session of get_db: "none", "open", "closed"
    frame,           \* the local variables of each invocation of predict_fire
    response,        \* what the client receives
    trace,           \* stages the invocation has run, in order
    temp,            \* files of the temp directory
    logdir,          \* files of the log directory (published artifacts)
    detection_logs,  \* rows of the detection log table, a bag
    server_log,      \* logger.error lines of each invocation, with their cause
    vName,           \* file name a validator run is applied to
    vAllowed         \* result of that run, None before it

stores == <<temp, logdir, detection_logs>>
vvars == <<vName, vAllowed>>
vars == <<pc, running, session, frame, response, trace, server_log, stores, vvars>>

\* the locals of predict_fire before the body has assigned any of them, and
\* after the body has been left
NoFrame ==
    [file_name |-> None,        \* file.filename
     new_file_name |-> None,    \* the staged name
     model |-> FALSE,           \* TRUE once YOLO(WEIGHTS) is constructed
     boxes |-> None,            \* result.boxes
     detections |-> <<>>,       \* processed_result["detections"]
     fire_detected |-> FALSE,
     resResult |-> None]

NoResponse == [status |-> 0, detail |-> "", body |-> None]

HTTPException(status_code, detail) ==
    [status |-> status_code, detail |-> detail, body |-> None]

Success(payload) == [status |-> 200, detail |-> "", body |-> Some(payload)]

Init ==
    /\ pc = [p \in Procs |-> "start"]
    /\ running = 0
    /\ session = [p \in Procs |-> "none"]
    /\ frame = [p \in Procs |-> NoFrame]
    /\ response = [p \in Procs |-> NoResponse]
    /\ trace = [p \in Procs |-> <<>>]
    /\ server_log = [p \in Procs |-> <<>>]
    /\ temp = {}
    /\ logdir = {}
    /\ detection_logs = EmptyBag
    /\ vName = <<>>
    /\ vAllowed = None

\* ------------------------------------------------------------ the request
\* The request arrives: Depends(get_db) opens the session and the handler
\* is about to start with the upload.  Invocations are numbered in the order
\* in which their requests arrive.
Receive(p) ==
    /\ pc[p] = "start"
    /\ \A q \in Procs : q < p => pc[q] # "start"
    /\ \E f \in Uploads : frame' = [frame EXCEPT ![p].file_name = Some(f)]
    /\ session' = [session EXCEPT ![p] = "open"]
    /\ pc' = [pc EXCEPT ![p] = "validate"]
    /\ UNCHANGED <<running, response, trace, server_log, stores, vvars>>

\* predict_fire is a coroutine without an await: from its first statement to
\* the statement that leaves it, the event loop runs no other invocation's
\* body.
Goto(p, label) ==
    /\ pc' = [pc EXCEPT ![p] = label]
    /\ running' = p
    /\ UNCHANGED <<response, session, server_log>>

\* The body of predict_fire is left, by return or by an exception: its locals
\* are gone and the finally clause of get_db closes the session.
LeaveBody(p) ==
    /\ pc' = [pc EXCEPT ![p] = "done"]
    /\ running' = 0
    /\ frame' = [frame EXCEPT ![p] = NoFrame]
    /\ session' = [session EXCEPT ![p] = "closed"]

\* variant: the session is closed by hand at the end of the body, so an
\* exception leaves it open
Raise_noclose(p, exc) ==
    /\ response' = [response EXCEPT ![p] = exc]
    /\ pc' = [pc EXCEPT ![p] = "done"]
    /\ running' = 0
    /\ frame' = [frame EXCEPT ![p] = NoFrame]
    /\ UNCHANGED <<session, server_log>>

\* variant: the handler stops where it would raise and never answers
Raise_hang(p, exc) ==
    /\ pc' = [pc EXCEPT ![p] = "hung"]
    /\ running' = 0
    /\ frame' = [frame EXCEPT ![p] = NoFrame]
    /\ UNCHANGED <<response, session, server_log>>

\* predict_fire raises exc outside the processing try block
Raise(p, exc) ==
    /\ response' = [response EXCEPT ![p] = exc]
    /\ LeaveBody(p)
    /\ UNCHANGED server_log

\* str(e) of the exceptions the file system, the engine, the image writer
\* and the database raise
Causes == {"[Errno 28] No space left on device: 'temp/1.JPG'",
           "database is locked"}

\* logger.error(f"{msg}{str(e)}")
logger_error(p, msg, e) ==
    server_log' = [server_log EXCEPT ![p] = Append(@, [msg |-> msg, cause |-> e])]

\* variant: the exception text is passed on to the client
Except_leak(p, msg, e, exc) ==
    /\ logger_error(p, msg, e)
    /\ response' = [response EXCEPT ![p] = [exc EXCEPT !.detail = e]]

\* an except clause: the cause e is logged and exc is raised in its place
Except(p, msg, e, exc) ==
    /\ logger_error(p, msg, e)
    /\ response' = [response EXCEPT ![p] = exc]

\* the except clause of the processing try block; the finally clause
\* follows, and no local of the body is read any more
ProcessingFailed(p) ==
    /\ \E e \in Causes :
          Except(p, "error occurred while processing image: ", e,
                 HTTPException(500, "failed to process image."))
    /\ pc' = [pc EXCEPT ![p] = "finally"]
    /\ running' = p
    /\ frame' = [frame EXCEPT ![p] = NoFrame]
    /\ UNCHANGED session

Ran(p, stage) == trace' = [trace EXCEPT ![p] = Append(@, stage)]

\* open(path, "wb") creates or truncates the file
WriteFile(dir, name, p, full) ==
    {f \in dir : f.name # name} \cup {[name |-> name, by |-> p, full |-> full]}

\* variant: the extension is checked after the upload has been staged
Validate_checklate(p) ==
    /\ pc[p] = "validate"
    /\ running = 0
    /\ Ran(p, "validate")
    /\ LET name == generate_random_file_name(frame[p].file_name[1], p) IN
       IF ~allowed_file(frame[p].file_name[1])
       THEN /\ temp' = WriteFile(temp, name, p, TRUE)
            /\ Raise(p, HTTPException(422,
                   "unsupported file format. only jpg, jpeg or png are allowed."))
       ELSE /\ frame' = [frame EXCEPT ![p].new_file_name = Some(name)]
            /\ Goto(p, "stage")
            /\ UNCHANGED temp
    /\ UNCHANGED <<logdir, detection_logs, vvars>>

\* 1) the extension check, then 2) the staged name and the temp directory
Validate(p) ==
    /\ pc[p] = "validate"
    /\ running = 0
    /\ Ran(p, "validate")
    /\ IF ~allowed_file(frame[p].file_name[1])
       THEN Raise(p, HTTPException(422,
                   "unsupported file format. only jpg, jpeg or png are allowed."))
       ELSE \/ /\ frame' = [frame EXCEPT ![p].new_file_name =
                     Some(generate_random_file_name(frame[p].file_name[1], p))]
               /\ Goto(p, "stage")
            \/ \* os.makedirs(temp_dir) raises, outside any try
               Raise(p, HTTPException(500, "Internal Server Error"))
    /\ UNCHANGED <<temp, logdir, detection_logs, vvars>>

\* variant: a failed copy is not noticed, the partial file is used
Stage_swallow(p) ==
    /\ pc[p] = "stage"
    /\ Ran(p, "stage")
    /\ \E full \in BOOLEAN : temp' = WriteFile(temp, frame[p].new_file_name[1], p, full)
    /\ Goto(p, "load")
    /\ UNCHANGED <<frame, logdir, detection_logs, vvars>>

\* 3) the upload is copied to the staged file
Stage(p) ==
    /\ pc[p] = "stage"
    /\ Ran(p, "stage")
    /\ \/ /\ temp' = WriteFile(temp, frame[p].new_file_name[1], p, TRUE)
          /\ Goto(p, "load")
          /\ UNCHANGED frame
       \/ \* IOError from open(): no file
          /\ \E e \in Causes :
                Except(p, "error occurred while saving file: ", e,
                       HTTPException(500, "failed to save file."))
          /\ LeaveBody(p)
          /\ UNCHANGED temp
       \/ \* IOError from copyfileobj(): the file holds part of the upload
          /\ temp' = WriteFile(temp, frame[p].new_file_name[1], p, FALSE)
          /\ \E e \in Causes :
                Except(p, "error occurred while saving file: ", e,
                       HTTPException(500, "failed to save file."))
          /\ LeaveBody(p)
    /\ UNCHANGED <<logdir, detection_logs, vvars>>

\* 4) YOLO(str(WEIGHTS))
LoadModel(p) ==
    /\ pc[p] = "load"
    /\ Ran(p, "load")
    /\ \/ /\ frame' = [frame EXCEPT ![p].model = TRUE]
          /\ Goto(p, "infer")
       \/ /\ \E e \in Causes :
                Except(p, "error occurred while loading model: ", e,
                       HTTPException(500, "failed to load model."))
          /\ LeaveBody(p)
    /\ UNCHANGED <<stores, vvars>>

\* 5)-7) model(temp_file_path), results[0].boxes, result.plot()
Infer(p) ==
    /\ pc[p] = "infer"
    /\ Ran(p, "infer")
    /\ \/ /\ \E f \in temp : f.name = frame[p].new_file_name[1]
          /\ \E bs \in BoxSeqs : frame' = [frame EXCEPT ![p].boxes = Some(bs)]
          /\ Goto(p, "classify")
       \/ ProcessingFailed(p)
    /\ UNCHANGED <<stores, vvars>>

\* Detection(class_name=..., confidence=..., bbox=...) of one box; float()
\* and tolist() hand on the numbers of the tensors unchanged
Detection(box) ==
    [class_name |-> names[box.cls], confidence |-> box.conf, bbox |-> box.xyxy]

\* variant: the flag is assigned on every iteration, the last box decides
RECURSIVE LoopBoxes_lastwins(_, _, _)
LoopBoxes_lastwins(bs, i, acc) ==
    IF i > Len(bs) THEN acc
    ELSE LoopBoxes_lastwins(bs, i + 1,
            [dets |-> Append(acc.dets, Detection(bs[i])),
             fire |-> names[bs[i].cls] = "fire"])

\* variant: each detection is put in front of the ones collected so far
RECURSIVE LoopBoxes_reversed(_, _, _)
LoopBoxes_reversed(bs, i, acc) ==
    IF i > Len(bs) THEN acc
    ELSE LoopBoxes_reversed(bs, i + 1,
            [dets |-> <<Detection(bs[i])>> \o acc.dets,
             fire |-> IF names[bs[i].cls] = "fire" THEN TRUE ELSE acc.fire])

\* 8)-9) the loop over boxes, from box i on, with the accumulated
\* processed_result["detections"] and fire_detected
RECURSIVE LoopBoxes(_, _, _)
LoopBoxes(bs, i, acc) ==
    IF i > Len(bs) THEN acc
    ELSE LoopBoxes(bs, i + 1,
            [dets |-> Append(acc.dets, Detection(bs[i])),
             fire |-> IF names[bs[i].cls] = "fire" THEN TRUE ELSE acc.fire])

ProcessBoxes(bs) == LoopBoxes(bs, 1, [dets |-> <<>>, fire |-> FALSE])

\* variant: the fire branch forgets the artifact key
FireResult_nokey(filename, dets, key, date) ==
    [message |-> "fire detected", file_name |-> filename,
     detections |-> dets, result_image |-> None, date |-> date]

\* the two shapes of resResult
FireResult(filename, dets, key, date) ==
    [message |-> "fire detected", file_name |-> filename,
     detections |-> dets, result_image |-> Some(key), date |-> date]

SafeResult(dets, date) ==
    [message |-> "safe", file_name |-> None,
     detections |-> dets, result_image |-> None, date |-> date]

\* 10) current_time: the clock reading of invocation p is called p
current_time(p) == p

\* variant: the annotated image is published whatever the flag says
Classify_alwayspublish(p) ==
    /\ pc[p] = "classify"
    /\ Ran(p, "classify")
    /\ LET r == ProcessBoxes(frame[p].boxes[1])
           looped == [frame[p] EXCEPT !.detections = r.dets, !.fire_detected = r.fire]
       IN \/ /\ frame' = [frame EXCEPT ![p] = looped]
             /\ Goto(p, "publish")
          \/ ProcessingFailed(p)
    /\ UNCHANGED <<stores, vvars>>

\* 8)-11) payload, loop over the boxes, log directory; the else branch of
\* "if fire_detected" builds its resResult
Classify(p) ==
    /\ pc[p] = "classify"
    /\ Ran(p, "classify")
    /\ LET r == ProcessBoxes(frame[p].boxes[1])
           looped == [frame[p] EXCEPT !.detections = r.dets, !.fire_detected = r.fire]
       IN \/ /\ r.fire
             /\ frame' = [frame EXCEPT ![p] = looped]
             /\ Goto(p, "publish")
          \/ /\ ~r.fire
             /\ frame' = [frame EXCEPT ![p] =
                    [looped EXCEPT !.resResult = Some(SafeResult(r.dets, current_time(p)))]]
             /\ Goto(p, "log")
          \/ \* os.makedirs(log_dir) raises
             ProcessingFailed(p)
    /\ UNCHANGED <<stores, vvars>>

\* extensions cv2.imwrite finds an encoder for, among those a staged name
\* can carry
Str_dot == <<".">>
ImwriteHasEncoder(name) ==
    lower(name.ext) \in {Str_dot \o Str_jpg, Str_dot \o Str_jpeg, Str_dot \o Str_png}

\* variant: the artifact is written under the staged name with its
\* extension in lower case
Publish_lowerext(p) ==
    /\ pc[p] = "publish"
    /\ Ran(p, "publish")
    /\ LET key == frame[p].new_file_name[1]
           built == [frame EXCEPT ![p].resResult =
                        Some(FireResult(frame[p].file_name, frame[p].detections, key,
                                        current_time(p)))]
       IN \/ /\ ImwriteHasEncoder(key)
             /\ logdir' = WriteFile(logdir, [key EXCEPT !.ext = lower(key.ext)], p, TRUE)
             /\ frame' = built
             /\ Goto(p, "log")
          \/ /\ ImwriteHasEncoder(key)
             /\ frame' = built
             /\ Goto(p, "log")
             /\ UNCHANGED logdir
          \/ /\ ProcessingFailed(p)
             /\ UNCHANGED logdir
    /\ UNCHANGED <<temp, detection_logs, vvars>>

\* 12)-13) cv2.imwrite(log_file_path, annotated_img), whose return value is
\* not looked at, and the resResult of the fire branch
Publish(p) ==
    /\ pc[p] = "publish"
    /\ Ran(p, "publish")
    /\ LET key == frame[p].new_file_name[1]
           built == [frame EXCEPT ![p].resResult =
                        Some(FireResult(frame[p].file_name, frame[p].detections, key,
                                        current_time(p)))]
       IN \/ \* the image is written, imwrite returns True
             /\ ImwriteHasEncoder(key)
             /\ logdir' = WriteFile(logdir, key, p, TRUE)
             /\ frame' = built
             /\ Goto(p, "log")
          \/ \* the image cannot be written, imwrite returns False
             /\ ImwriteHasEncoder(key)
             /\ frame' = built
             /\ Goto(p, "log")
             /\ UNCHANGED logdir
          \/ \* imwrite raises cv2.error
             /\ ProcessingFailed(p)
             /\ UNCHANGED logdir
    /\ UNCHANGED <<temp, detection_logs, vvars>>

\* the row create_detection_log adds for detection_data
create_detection_log(rows, detection_data, p) ==
    rows (+) SetToBag({[by |-> p,
                        message |-> detection_data.message,
                        file_name |-> detection_data.file_name,
                        detections |-> detection_data.detections,
                        result_image |-> detection_data.result_image,
                        date |-> detection_data.date,
                        has_fire |-> detection_data.message = "fire detected"]})

\* variant: a failed write of the log row is swallowed
Log_swallow(p) ==
    /\ pc[p] = "log"
    /\ Ran(p, "log")
    /\ \/ detection_logs' =
               create_detection_log(detection_logs, frame[p].resResult[1], p)
       \/ UNCHANGED detection_logs
    /\ Goto(p, "return")
    /\ UNCHANGED <<frame, temp, logdir, vvars>>

\* variant: the row is written twice
Log_twice(p) ==
    /\ pc[p] = "log"
    /\ Ran(p, "log")
    /\ \/ /\ detection_logs' = create_detection_log(
                    create_detection_log(detection_logs, frame[p].resResult[1], p),
                    frame[p].resResult[1], p)
          /\ Goto(p, "return")
          /\ UNCHANGED frame
       \/ /\ ProcessingFailed(p)
          /\ UNCHANGED detection_logs
    /\ UNCHANGED <<temp, logdir, vvars>>

\* 15) create_detection_log(db=db, detection_data=resResult)
Log(p) ==
    /\ pc[p] = "log"
    /\ Ran(p, "log")
    /\ \/ /\ detection_logs' =
                create_detection_log(detection_logs, frame[p].resResult[1], p)
          /\ Goto(p, "return")
          /\ UNCHANGED frame
       \/ \* the write raises
          /\ ProcessingFailed(p)
          /\ UNCHANGED detection_logs
    /\ UNCHANGED <<temp, logdir, vvars>>

\* return resResult; the finally clause follows
Return(p) ==
    /\ pc[p] = "return"
    /\ Ran(p, "respond")
    /\ response' = [response EXCEPT ![p] = Success(frame[p].resResult[1])]
    /\ pc' = [pc EXCEPT ![p] = "finally"]
    /\ UNCHANGED <<running, session, frame, server_log, stores, vvars>>

\* 16) the finally clause: logger.info("Cleaning up temporary files."); the
\* os.remove of the staged file is commented out.  The body is left.
Finally(p) ==
    /\ pc[p] = "finally"
    /\ Ran(p, "cleanup")
    /\ LeaveBody(p)
    /\ UNCHANGED <<response, server_log, stores, vvars>>

Next ==
    \E p \in Procs :
        \/ Receive(p)
        \/ Validate(p)
        \/ Stage(p)
        \/ LoadModel(p)
        \/ Infer(p)
        \/ Classify(p)
        \/ Publish(p)
        \/ Log(p)
        \/ Return(p)
        \/ Finally(p)

Spec == Init /\ [][Next]_vars

\* the steps of the body of invocation p; the handler has no await, so the
\* event loop runs a body it has entered until it returns or raises, and a
\* request the server has accepted is handed to the handler
Body(p) ==
    \/ Validate(p)
    \/ Stage(p)
    \/ LoadModel(p)
    \/ Infer(p)
    \/ Classify(p)
    \/ Publish(p)
    \/ Log(p)
    \/ Return(p)
    \/ Finally(p)

SpecFair == Spec /\ \A p \in Procs : WF_vars(Body(p))

\* ------------------------------------------------- the validator on its own
\* allowed_file applied to every file name over Alphabet of at most MaxLen
\* characters
InitValidator ==
    /\ pc = [p \in Procs |-> "start"]
    /\ running = 0
    /\ session = [p \in Procs |-> "none"]
    /\ frame = [p \in Procs |-> NoFrame]
    /\ response = [p \in Procs |-> NoResponse]
    /\ trace = [p \in Procs |-> <<>>]
    /\ server_log = [p \in Procs |-> <<>>]
    /\ temp = {}
    /\ logdir = {}
    /\ detection_logs = EmptyBag
    /\ vName \in SeqsUpTo(Alphabet, MaxLen)
    /\ vAllowed = None

RunValidator ==
    /\ vAllowed = None
    /\ vAllowed' = Some(allowed_file(vName))
    /\ UNCHANGED <<pc, running, session, frame, response, trace, server_log, stores, vName>>

NextValidator == RunValidator

SpecValidator == InitValidator /\ [][NextValidator]_vars

\* ----------------------------------------------------------------- claims
Range(s) == {s[i] : i \in 1..Len(s)}
Ended(p) == pc[p] = "done"
Responded200(p) == response[p].status = 200
Payload(p) == response[p].body[1]
IsFire(d) == d.class_name = "fire"

\* C1: in every success response, result_image is set exactly when the
\* message is "fire detected", and a "fire detected" response carries at
\* least one detection of class "fire".
C1_ResultImageIffFire ==
    \A p \in Procs : Responded200(p) =>
        /\ Payload(p).message \in {"fire detected", "safe"}
        /\ (Payload(p).result_image # None) <=> (Payload(p).message = "fire detected")
        /\ (Payload(p).message = "fire detected") =>
               \E i \in 1..Len(Payload(p).detections) : IsFire(Payload(p).detections[i])

C1_Witness ==
    \E p \in Procs : /\ Responded200(p)
                     /\ Payload(p).message = "fire detected"
                     /\ Payload(p).result_image # None

\* C2: for every sequence of boxes the engine returned, the outcome built
\* from it is "fire detected" exactly when some box carries the label
\* "fire", and "safe" otherwise.
C2_FireIffSomeFireBox ==
    \A p \in Procs : frame[p].resResult # None =>
        LET bs == frame[p].boxes[1]
            someFire == \E i \in 1..Len(bs) : names[bs[i].cls] = "fire"
            msg == frame[p].resResult[1].message
        IN /\ someFire => msg = "fire detected"
           /\ ~someFire => msg = "safe"
           /\ Responded200(p) => Payload(p).message = msg

C2_Witness ==
    \E p \in Procs :
        /\ frame[p].resResult # None
        /\ Len(frame[p].boxes[1]) = 2
        /\ names[frame[p].boxes[1][1].cls] = "fire"
        /\ names[frame[p].boxes[1][2].cls] = "smoke"
        /\ frame[p].resResult[1].message = "fire detected"

\* what an invocation has left behind: staged files, artifacts, log rows
StagedBy(p) == {f \in temp : f.by = p}
ArtifactsBy(p) == {f \in logdir : f.by = p}
Rows == BagToSet(detection_logs)
RowsBy(p) == {r \in Rows : r.by = p}

\* C3: the step that rejects the upload's file name ends the invocation
\* with status 422, and an invocation answered with 422 has run no stage
\* but the validation: no staged file, no engine, no artifact, no log row.
C3_RejectedBeforeStaging ==
    [][\A p \in Procs :
        /\ ( /\ pc[p] = "validate"
             /\ pc'[p] # "validate"
             /\ ~allowed_file(frame[p].file_name[1]) )
           => ( /\ response'[p].status = 422
                /\ pc'[p] = "done"
                /\ stores' = stores )
        /\ response'[p].status = 422
           => ( /\ trace'[p] = <<"validate">>
                /\ StagedBy(p)' = {}
                /\ ArtifactsBy(p)' = {}
                /\ RowsBy(p)' = {}
                /\ ~frame'[p].model
                /\ frame'[p].boxes = None )
      ]_vars

C3_Witness ==
    \E p \in Procs : /\ response[p].status = 422
                     /\ pc[p] = "done"
                     /\ \E q \in Procs : StagedBy(q) # {}

\* C4: allowed_file accepts a name exactly when the name ends in a dot
\* followed by jpg, jpeg or png in any letter case (the dot then being the
\* last dot of the name); names without a dot and names ending in a dot are
\* rejected.
SameLetter(c, d) ==
    \/ c = d
    \/ <<c, d>> \in {<<"J", "j">>, <<"P", "p">>, <<"G", "g">>, <<"E", "e">>, <<"N", "n">>}

EndsWithDotExt(name, ext) ==
    /\ Len(name) > Len(ext)
    /\ name[Len(name) - Len(ext)] = "."
    /\ \A k \in 1..Len(ext) : SameLetter(name[Len(name) - Len(ext) + k], ext[k])

C4_AllowedFile ==
    vAllowed # None =>
        /\ vAllowed[1] <=> \E ext \in {Str_jpg, Str_jpeg, Str_png} : EndsWithDotExt(vName, ext)
        /\ "." \notin Range(vName) => ~vAllowed[1]
        /\ (Len(vName) > 0 /\ vName[Len(vName)] = ".") => ~vAllowed[1]

C4_Witness ==
    /\ vAllowed = Some(TRUE)
    /\ vName = <<"g", ".", "J", "P", "g">>

\* C5: a later stage runs only when the staged file was written in full,
\* the engine was constructed and the inference returned; a failure of
\* staging, of the engine's construction or of the inference ends in status
\* 500 with no classification result, artifact or log row of the invocation,
\* and after a 500 nothing but the cleanup clause runs.
StageOrder(p) ==
    /\ pc[p] \in {"load", "infer", "classify", "publish", "log", "return"}
       => \E f \in StagedBy(p) : f.full /\ f.name = frame[p].new_file_name[1]
    /\ pc[p] \in {"infer", "classify", "publish", "log", "return"}
       => frame[p].model
    /\ pc[p] \in {"classify", "publish", "log", "return"}
       => frame[p].boxes # None

NextStage(label) ==
    CASE label = "stage" -> "load"
      [] label = "load" -> "infer"
      [] label = "infer" -> "classify"
      [] OTHER -> label

C5_FailureShortCircuits ==
    [][\A p \in Procs :
        /\ StageOrder(p)'
        /\ ( /\ pc[p] \in {"stage", "load", "infer"}
             /\ pc'[p] \notin {pc[p], NextStage(pc[p])} )
           => ( /\ response'[p].status = 500
                /\ pc'[p] \in {"done", "finally"}
                /\ frame'[p].resResult = None
                /\ ArtifactsBy(p)' = {}
                /\ RowsBy(p)' = {}
                /\ Range(trace'[p]) \cap {"classify", "publish", "log", "respond"} = {} )
        /\ response[p].status = 500
           => ( /\ response'[p] = response[p]
                /\ ArtifactsBy(p)' = ArtifactsBy(p)
                /\ RowsBy(p)' = RowsBy(p)
                /\ StagedBy(p)' = StagedBy(p)
                /\ trace'[p] \in {trace[p], Append(trace[p], "cleanup")} )
      ]_vars

C5_Witness ==
    \E p \in Procs : /\ pc[p] = "done"
                     /\ response[p].status = 500
                     /\ trace[p] = <<"validate", "stage", "load", "infer", "cleanup">>
                     /\ \E q \in Procs : RowsBy(q) # {}

\* C6: a log step that writes no row ends in status 500, and every success
\* response belongs to an invocation whose log row was written.
C6_LogFailureIs500 ==
    [][\A p \in Procs :
        /\ (pc[p] = "log" /\ pc'[p] # "log" /\ RowsBy(p)' = RowsBy(p))
           => (response'[p].status = 500 /\ pc'[p] = "finally")
        /\ Responded200(p)' => RowsBy(p)' # {}
      ]_vars

C6_Witness ==
    \E p \in Procs : /\ Ended(p)
                     /\ response[p].status = 500
                     /\ "log" \in Range(trace[p])
                     /\ RowsBy(p) = {}

\* C7: once an invocation has ended, every artifact it published is
\* referenced by a log row.
C7_NoOrphanArtifact ==
    \A p \in Procs : Ended(p) =>
        \A f \in ArtifactsBy(p) :
            \E r \in Rows : r.result_image = Some(f.name)

\* C8: every log row that names a result image names an artifact that was
\* written to the log directory.
C8_RowReferencesWrittenArtifact ==
    \A r \in Rows :
        r.result_image # None =>
            \E f \in logdir : f.name = r.result_image[1] /\ f.full

\* C9: a "fire detected" success response names an artifact that was
\* written; when the image could not be written the response is a 500.
C9_FireResponseHasArtifact ==
    \A p \in Procs :
        (Responded200(p) /\ Payload(p).message = "fire detected") =>
            \E f \in ArtifactsBy(p) : Some(f.name) = Payload(p).result_image

\* C10: every invocation that got as far as staging runs, before it ends,
\* the cleanup clause, and in it attempts to remove its staged file.  The
\* finally clause records "cleanup"; a call of os.remove would record
\* "remove".
C10_CleanupAlwaysRuns ==
    \A p \in Procs :
        (Ended(p) /\ "stage" \in Range(trace[p])) =>
            /\ "cleanup" \in Range(trace[p])
            /\ "remove" \in Range(trace[p])

\* C11: the session of an invocation is opened once, is open for as long as
\* the invocation is between its arrival and its end, and is closed when
\* the invocation has ended, whatever the response; a closed session is
\* never opened again.
C11_SessionReleased ==
    [][\A p \in Procs :
        /\ pc'[p] = "start" => session'[p] = "none"
        /\ pc'[p] \notin {"start", "done"} => session'[p] = "open"
        /\ pc'[p] = "done" => session'[p] = "closed"
        /\ session[p] = "open" => session'[p] \in {"open", "closed"}
        /\ session[p] = "closed" => session'[p] = "closed"
      ]_vars

C11_Witness ==
    /\ \A p \in Procs : pc[p] = "done" /\ session[p] = "closed"
    /\ \E p \in Procs : response[p].status = 200
    /\ \E p \in Procs : response[p].status \in {422, 500}

\* C12: an invocation writes at most one log row; a success response is
\* returned only when the row of the invocation is already written, and
\* that row carries the message, file name, result image, detections and
\* date of the response; an invocation that ended without reaching the log
\* step has written none.
RowMatches(r, payload) ==
    /\ r.message = payload.message
    /\ r.file_name = payload.file_name
    /\ r.result_image = payload.result_image
    /\ r.detections = payload.detections
    /\ r.date = payload.date
    /\ r.has_fire = (payload.message = "fire detected")

C12_OneRowPerSuccess ==
    [][\A p \in Procs :
        /\ Cardinality(RowsBy(p)') <= 1
        /\ \A r \in RowsBy(p)' : CopiesIn(r, detection_logs') = 1
        /\ (Responded200(p)' /\ ~Responded200(p))
           => \E r \in RowsBy(p) : RowMatches(r, response'[p].body[1])
        /\ Responded200(p)' => \E r \in RowsBy(p)' : RowMatches(r, response'[p].body[1])
        /\ (pc'[p] = "done" /\ "log" \notin Range(trace'[p])) => RowsBy(p)' = {}
      ]_vars

C12_Witness ==
    /\ \A p \in Procs : Responded200(p) /\ Ended(p) /\ Cardinality(RowsBy(p)) = 1
    /\ \E p \in Procs : Payload(p).message = "safe"
    /\ \E p \in Procs : Payload(p).message = "fire detected"

\* C13: two invocations whose failure was caught at the same stage receive
\* the same status and detail whatever the exception was; no response
\* carries the text of an exception, which is found in the server log only.
FailedAt(p) ==
    LET stages == SelectSeq(trace[p], LAMBDA x : x # "cleanup")
    IN stages[Len(stages)]

Caught(p) == response[p].status = 500 /\ server_log[p] # <<>>

C13_FailureBodyIndependentOfCause ==
    /\ \A p, q \in Procs :
          (Caught(p) /\ Caught(q) /\ FailedAt(p) = FailedAt(q))
              => response[p] = response[q]
    /\ \A p \in Procs :
          /\ response[p].detail \notin Causes
          /\ response[p].status \in {422, 500} => response[p].body = None
          /\ Caught(p) => /\ Len(server_log[p]) = 1
                          /\ server_log[p][1].cause \in Causes

C13_Witness ==
    \E p, q \in Procs :
        /\ Caught(p) /\ Caught(q)
        /\ Ended(p) /\ Ended(q)
        /\ FailedAt(p) = "infer" /\ FailedAt(q) = "infer"
        /\ server_log[p][1].cause # server_log[q][1].cause
        /\ response[p] = response[q]

\* C14: the staged names of different invocations differ, a staged name
\* ends in a dot and the text after the last dot of the uploaded name, as
\* typed, and every file of the temp and log directories was written by the
\* invocation that generated its name.
C14_StagedNamesIsolated ==
    /\ \A p \in Procs : frame[p].new_file_name # None =>
          /\ frame[p].new_file_name[1].ext = Str_dot \o rsplit_ext(frame[p].file_name[1])
          /\ \A q \in Procs \ {p} :
                frame[q].new_file_name # None
                    => frame[q].new_file_name[1] # frame[p].new_file_name[1]
    /\ \A f \in temp \cup logdir : f.name.id = uuid4(f.by)
    /\ \A f, g \in temp : f.name = g.name => f.by = g.by
    /\ \A f, g \in logdir : f.name = g.name => f.by = g.by

\* C15: the stages of an invocation run in the order validate, stage, (load),
\* infer, classify, (publish), log, respond, (cleanup), each at most once
\* and each right after a stage it may follow; a stage runs only after the
\* stages before it succeeded, the log step in particular only after a
\* publish step that wrote the artifact; once the response is decided no
\* stage but the cleanup runs.
Rank(stage) ==
    CASE stage = "validate" -> 1
      [] stage = "stage" -> 2
      [] stage = "load" -> 3
      [] stage = "infer" -> 4
      [] stage = "classify" -> 5
      [] stage = "publish" -> 6
      [] stage = "log" -> 7
      [] stage = "respond" -> 8
      [] stage = "cleanup" -> 9

MayFollow(stage) ==
    CASE stage = "validate" -> {}
      [] stage = "stage" -> {"validate"}
      [] stage = "load" -> {"stage"}
      [] stage = "infer" -> {"load"}
      [] stage = "classify" -> {"infer"}
      [] stage = "publish" -> {"classify"}
      [] stage = "log" -> {"classify", "publish"}
      [] stage = "respond" -> {"log"}
      [] stage = "cleanup" -> {"infer", "classify", "publish", "log", "respond"}

InOrder(t) ==
    /\ Len(t) > 0 => t[1] = "validate"
    /\ \A i \in 2..Len(t) : /\ Rank(t[i-1]) < Rank(t[i])
                            /\ t[i-1] \in MayFollow(t[i])

PredecessorsSucceeded(p) ==
    /\ StageOrder(p)
    /\ ("publish" \in Range(trace[p]) /\ "log" \in Range(trace[p]))
           => ArtifactsBy(p) # {}
    /\ "respond" \in Range(trace[p]) => RowsBy(p) # {}

C15_StagesInOrder ==
    [][\A p \in Procs :
        /\ InOrder(trace'[p])
        /\ PredecessorsSucceeded(p)'
        /\ response[p] # NoResponse
           => trace'[p] \in {trace[p], Append(trace[p], "cleanup")}
      ]_vars

\* C16: the log directory changes only in the publish step of an invocation
\* whose engine result holds a box of class fire, and only by files of that
\* invocation; an invocation without such a box goes from classification to
\* the log step, never runs the publish step and leaves no artifact.
HasFireBox(p) ==
    /\ frame[p].boxes # None
    /\ \E i \in DOMAIN frame[p].boxes[1] : names[frame[p].boxes[1][i].cls] = "fire"

C16_PublishOnlyOnFire ==
    [][/\ logdir' # logdir =>
            \E p \in Procs : /\ pc[p] = "publish"
                             /\ frame[p].fire_detected
                             /\ HasFireBox(p)
                             /\ logdir \subseteq logdir'
                             /\ \A f \in logdir' \ logdir : f.by = p
       /\ \A p \in Procs :
            /\ pc'[p] = "publish" => HasFireBox(p)
            /\ (pc[p] = "classify" /\ ~HasFireBox(p)) => pc'[p] \in {"classify", "log", "finally"}
            /\ (Responded200(p)' /\ \A i \in DOMAIN Payload(p)'.detections :
                                        ~IsFire(Payload(p)'.detections[i]))
                 => /\ ArtifactsBy(p)' = {}
                    /\ "publish" \notin Range(trace'[p])
      ]_vars

C16_Witness ==
    \E p, q \in Procs :
        /\ Ended(p) /\ Responded200(p)
        /\ Payload(p).detections # <<>>
        /\ \A i \in DOMAIN Payload(p).detections : ~IsFire(Payload(p).detections[i])
        /\ ArtifactsBy(p) = {}
        /\ ArtifactsBy(q) # {}
        /\ "publish" \in Range(trace[q])

C18_DetectionsFollowBoxes ==
    \A p \in Procs :
        (pc[p] = "finally" /\ Responded200(p)) =>
            LET bs == frame[p].boxes[1]
                ds == Payload(p).detections
            IN /\ Len(ds) = Len(bs)
               /\ \A i \in 1..Len(bs) : /\ ds[i].class_name = names[bs[i].cls]
                                        /\ ds[i].confidence = bs[i].conf
                                        /\ ds[i].bbox = bs[i].xyxy

C18_Witness ==
    \E p, q \in Procs :
        /\ pc[p] = "finally" /\ Responded200(p)
        /\ Len(frame[p].boxes[1]) = 2
        /\ frame[p].boxes[1][1].conf < frame[p].boxes[1][2].conf
        /\ Payload(p).message = "fire detected"
        /\ Ended(q) /\ Responded200(q)
        /\ Payload(q).message = "safe"
        /\ Len(Payload(q).detections) = 2

\* C19: every invocation the server has received ends, with status 200, 422
\* or 500; its response, once decided, is never replaced by another, and an
\* invocation that has ended stays ended.
Terminal(p) == Ended(p) /\ response[p].status \in {200, 422, 500}

C19_Terminates ==
    /\ \A p \in Procs : (pc[p] # "start") ~> Terminal(p)
    /\ [][\A p \in Procs :
            /\ response[p] # NoResponse => response'[p] = response[p]
            /\ Ended(p) => Terminal(p) /\ Terminal(p)'
         ]_vars

C19_Witness ==
    \E p, q \in Procs :
        /\ Terminal(p) /\ response[p].status = 200
        /\ Terminal(q) /\ response[q].status = 500
        /\ "cleanup" \in Range(trace[q])

====
